---- MODULE Spec2Model ----
(***************************************************************************)
(* A model of the CI helper scripts of this repository:                    *)
(*   - the tag flow (src/unnamed/part_000, lines 1-113),                   *)
(*   - the replace replicator (src/unnamed/part_001),                      *)
(*   - the skip-on-conflict replicator (src/unnamed/part_000, 115-592),    *)
(*   - the replicator of src/src/index.js,                                 *)
(*   - the download of the zip-upload replicator (src/unnamed/part_003).   *)
(* The hosting API, the file system and the archive reader are the         *)
(* environment: every request is answered by the remote state or fails.    *)
(***************************************************************************)
EXTENDS Integers, Sequences, FiniteSets, TLC

(***************************************************************************)
(* Bounds of the model.                                                    *)
(***************************************************************************)
MaxRuns == 2
MaxArtifacts == 2
MaxFiles == 2
MaxLen == 4
MaxName == 6
MaxRequests == 4
MaxTicks == 12

(***************************************************************************)
(* Program constants.                                                      *)
(***************************************************************************)
NotFound == 404
timeoutMs == 300000
connectionTimeoutMs == 30000

VARIABLES
    \* ---- tag flow: the remote repository
    refs,          \* tag name -> commit the tag points at, or NoRef
    defaultTip,    \* tip commit of the default branch
    \* ---- tag flow: one invocation (a process)
    tpc,           \* position of main()
    tag,           \* input 'tag'
    commit,        \* variable commit: the input, overwritten by the resolved commit
    commitInput,   \* input 'commit' as given
    skipInput,     \* input 'skip_update'
    lookupSha,     \* response.data.object.sha of the tag lookup
    outputs,       \* setOutput values: result, tag, commit
    tagFailed,     \* setFailed has been called
    reqs,          \* requests issued by this invocation, in order
    apiErr,        \* requests of this invocation that failed, as <<request, status>>
    runs,          \* invocations started so far
    tagBefore,     \* what the tag pointed at when this invocation started
    prev,          \* the invocation before this one, as it ended
    uncaught       \* the process died of an exception thrown outside main()

VARIABLES
    \* ---- replicators: the release of the hosting service and the local disk
    release,          \* assets of the release: records id, name, content
    nextId,           \* id the service gives to the next asset
    disk,             \* paths of the files on the local disk
    \* ---- replicators: one run of main()
    variant,          \* "replace" (part_001), "skip" (part_000, 115-592) or "index" (src/index.js)
    pc,               \* position of main()
    artifacts,        \* names of the artifacts of the workflow run, as listed
    existingAssets,   \* replace: name -> id of the assets listed at the start
    ai,               \* index of the artifact (or download result) in work
    files,            \* files extracted from the artifact in work
    fi,               \* index of the file in work
    processedCount,   \* replace: processedCount of uploadFilesToRelease
    totalProcessed,   \* replace: totalProcessed of main
    downloadResults,  \* skip: downloadResults of main
    uploadResults,    \* skip: uploadResults of main
    uploadedCount,    \* skip: uploadedCount of the result in work
    status,           \* "running", "success" or "failure" (process.exit(1))
    setFailedCalled,  \* setFailed has been called
    \* ---- replicators: what happened, kept to state the claims
    art,              \* per artifact: download/extraction outcome, upload steps run
    lastFile,         \* the file the last upload step worked on, and what happened
    posted,           \* upload requests the service answered with success
    deleted,          \* asset ids of the delete requests issued, in order
    logged,           \* log calls made: <<level, subject, ...>>
    requested,        \* kinds of hosting-API requests issued so far
    unlinkFailed,     \* paths whose removal was attempted and failed
    firstRun,         \* the run before this one, as it ended, or NoRun
    \* ---- replicators: the configuration
    inputs            \* getInput values: workflow_repo, release_repo, run_id, release_id

VARIABLES
    \* ---- paths: one artifact name and one archive entry name put through
    \* the path derivations of a replicator
    xpc,              \* "derive", "extract" or "done"
    xvariant,         \* "replace" (part_001) or "skip" (part_000, 115-592)
    xartifact,        \* artifact.name, a string
    xentry,           \* entry.fileName, a string
    xzip,             \* path of the downloaded archive, as normalized segments
    xdir,             \* extraction directory, as normalized segments
    xcreated,         \* paths created or written by the extraction
    xwarned           \* the entry was skipped with a warning

VARIABLES
    \* ---- zip-upload replicator (part_003): the download of one artifact
    dphase,           \* "idle", "connecting", "transferring", "hung", "done", "recorded"
    dnow,             \* the clock, in ms since the download began
    dreqs,            \* https.get requests issued for the artifact
    dtimer,           \* the setTimeout of line 135 is pending
    dtimerStart,      \* when that timer was set
    dlast,            \* time of the last activity on the socket
    dfile,            \* the file at filePath exists
    dresult,          \* "pending", "resolved" or the reason of the rejection
    dopen,            \* the request outlived the promise (rejected by the timer of line 135)
    dmarked           \* success flag of the entry pushed to downloadResults, or "none"

dlVars == <<dphase, dnow, dreqs, dtimer, dtimerStart, dlast, dfile, dresult, dmarked,
           dopen>>

replVars == <<release, nextId, disk, variant, pc, artifacts, existingAssets, ai,
              files, fi, processedCount, totalProcessed, downloadResults,
              uploadResults, uploadedCount, status, setFailedCalled, art,
              lastFile, posted, deleted, logged, requested, unlinkFailed,
              firstRun, inputs>>

tagVars == <<refs, defaultTip, tpc, tag, commit, commitInput, skipInput, lookupSha, outputs,
             tagFailed, reqs, apiErr, runs, tagBefore, prev, uncaught>>

pathVars == <<xpc, xvariant, xartifact, xentry, xzip, xdir, xcreated, xwarned>>

vars == <<tagVars, replVars, pathVars, dlVars>>

(***************************************************************************)
(* Tag flow: src/unnamed/part_000, lines 1-113.                            *)
(***************************************************************************)
Tags == {"t1", "t2"}
Commits == {"c1", "c2"}
NoRef == "none"
Unset == "unset"
SkipValues == {"", "true", "false"}
\* statuses a failing request can carry besides the lookup's own not-found
ReadFailStatus == {403, 500}
WriteFailStatus == {403, NotFound, 422}

NoOutputs == [result |-> Unset, tag |-> Unset, commit |-> Unset]
NoPrev == [tag |-> NoRef, commit |-> NoRef, result |-> Unset, writes |-> 0,
           before |-> NoRef, after |-> NoRef, failed |-> FALSE]

IsWrite(r) == r \in {"PATCH ref", "POST ref"}
Writes(s) == Cardinality({i \in 1..Len(s) : IsWrite(s[i])})

\* setOutput calls of lines 64-67
AlreadyOutputs(t, c) == [result |-> "created", tag |-> t, commit |-> c]
SkippedOutputsDesired(t, c, sha) == [result |-> "skipped", tag |-> t, commit |-> c]
\* setOutput calls of lines 76-79
SkippedOutputs(t, c, sha) == [result |-> "skipped", tag |-> t, commit |-> sha]
\* setOutput calls of lines 84-87
UpdatedOutputs(t, c) == [result |-> "updated", tag |-> t, commit |-> c]
CreatedOutputsNoCommit(t, c) == [result |-> "created", tag |-> t, commit |-> ""]
\* setOutput calls of lines 94-97
CreatedOutputs(t, c) == [result |-> "created", tag |-> t, commit |-> c]
\* setOutput calls of lines 102-105
FailedOutputs == [result |-> "failed", tag |-> "", commit |-> ""]

SameCommitNever(sha, c) == FALSE
\* line 62
SameCommit(sha, c) == sha = c
\* line 73
SkipUpdate(v) == v = "true"
\* line 91
IsNotFound(st) == st = NotFound

PatchRefStale(r, t, c) == [r EXCEPT ![t] = r[t]]
\* body of the PATCH request of updateTag: force the ref to the commit
PatchRef(r, t, c) == [r EXCEPT ![t] = c]
\* body of the POST request of createTag: refs/tags/<tag> at the commit
PostRef(r, t, c) == [r EXCEPT ![t] = c]

\* A new process: the inputs are read at module level (lines 4-11). getInput
\* throws when a required input (token, repository, tag) is not supplied: the
\* throw is outside main() and no handler is registered, the process dies.
TagStart ==
    /\ UNCHANGED <<replVars, pathVars, dlVars>>
    /\ tpc \in {"idle", "done"}
    /\ runs < MaxRuns
    /\ \E t \in Tags, c \in Commits \cup {""}, s \in SkipValues :
          /\ tag' = t
          /\ commit' = c
          /\ commitInput' = c
          /\ skipInput' = s
          /\ prev' = IF tpc = "idle" THEN NoPrev
                     ELSE [tag |-> tag, commit |-> commit, result |-> outputs.result,
                           writes |-> Writes(reqs), before |-> tagBefore,
                           after |-> refs[tag], failed |-> tagFailed]
          /\ tagBefore' = refs[t]
    /\ \/ tpc' = "main" /\ uncaught' = FALSE
       \/ tpc' = "done" /\ uncaught' = TRUE
    /\ runs' = runs + 1
    /\ outputs' = NoOutputs
    /\ tagFailed' = FALSE
    /\ reqs' = <<>>
    /\ apiErr' = {}
    /\ lookupSha' = NoRef
    /\ UNCHANGED <<refs, defaultTip>>

\* main().catch, lines 110-113: an error thrown out of main()
Unhandled(req, st) ==
    /\ tagFailed' = TRUE
    /\ apiErr' = apiErr \cup {<<req, st>>}
    /\ tpc' = "done"

NoCommitNever(c) == FALSE
\* line 51: !commit
NoCommit(c) == c = ""

\* line 51
TagMain ==
    /\ UNCHANGED <<replVars, pathVars, dlVars>>
    /\ tpc = "main"
    /\ tpc' = IF NoCommit(commit) THEN "getDefaultBranch" ELSE "lookup"
    /\ UNCHANGED <<refs, defaultTip, tag, commit, commitInput, skipInput, lookupSha, outputs,
                   tagFailed, reqs, apiErr, runs, tagBefore, prev, uncaught>>

\* getDefaultBranch, lines 13-17
GetDefaultBranch ==
    /\ UNCHANGED <<replVars, pathVars, dlVars>>
    /\ tpc = "getDefaultBranch"
    /\ reqs' = Append(reqs, "GET repo")
    /\ \/ /\ tpc' = "getLatestCommit"
          /\ UNCHANGED <<tagFailed, apiErr>>
       \/ \E st \in ReadFailStatus : Unhandled("GET repo", st)
    /\ UNCHANGED <<refs, defaultTip, tag, commit, commitInput, skipInput, lookupSha, outputs,
                   runs, tagBefore, prev, uncaught>>

\* getLatestCommit, lines 19-22, and the assignment of line 55
GetLatestCommit ==
    /\ UNCHANGED <<replVars, pathVars, dlVars>>
    /\ tpc = "getLatestCommit"
    /\ reqs' = Append(reqs, "GET commit")
    /\ \/ /\ commit' = defaultTip
          /\ tpc' = "lookup"
          /\ UNCHANGED <<tagFailed, apiErr>>
       \/ /\ \E st \in ReadFailStatus : Unhandled("GET commit", st)
          /\ UNCHANGED commit
    /\ UNCHANGED <<refs, defaultTip, tag, commitInput, skipInput, lookupSha, outputs, runs,
                   tagBefore, prev, uncaught>>

\* the catch block of lines 90-108 for an error of the given status that is
\* not the not-found answer
CatchFailed(req, st) ==
    /\ tagFailed' = TRUE
    /\ outputs' = FailedOutputs
    /\ apiErr' = apiErr \cup {<<req, st>>}
    /\ tpc' = "done"

\* the answers of GET /git/refs/tags/<tag>: the ref when it exists, not-found
\* when it does not, or a failure of the request
LookupStatus(r, t) == (IF r[t] # NoRef THEN {200} ELSE {NotFound}) \cup ReadFailStatus

\* lines 59-81 and 90-108: the lookup of the tag, the branches that issue no
\* write, and the catch block for an error of the lookup
LookupTag ==
    /\ UNCHANGED <<replVars, pathVars, dlVars>>
    /\ tpc = "lookup"
    /\ reqs' = Append(reqs, "GET ref")
    /\ \E st \in LookupStatus(refs, tag) :
          IF st = 200
          THEN /\ lookupSha' = refs[tag]
               /\ IF SameCommit(refs[tag], commit)
                  THEN /\ outputs' = AlreadyOutputs(tag, commit)
                       /\ tpc' = "done"
                  ELSE IF SkipUpdate(skipInput)
                  THEN /\ outputs' = SkippedOutputs(tag, commit, refs[tag])
                       /\ tpc' = "done"
                  ELSE /\ tpc' = "updateTag"
                       /\ UNCHANGED outputs
               /\ UNCHANGED <<tagFailed, apiErr>>
          ELSE /\ UNCHANGED lookupSha
               /\ IF IsNotFound(st)
                  THEN /\ tpc' = "createTag"
                       /\ apiErr' = apiErr \cup {<<"GET ref", st>>}
                       /\ UNCHANGED <<outputs, tagFailed>>
                  ELSE CatchFailed("GET ref", st)
    /\ UNCHANGED <<refs, defaultTip, tag, commit, commitInput, skipInput, runs, tagBefore, prev,
                   uncaught>>

\* lines 82-87 with updateTag, lines 24-35; its error is rethrown into the
\* catch block of line 90
UpdateTag ==
    /\ UNCHANGED <<replVars, pathVars, dlVars>>
    /\ tpc = "updateTag"
    /\ reqs' = Append(reqs, "PATCH ref")
    /\ \/ /\ refs[tag] # NoRef
          /\ refs' = PatchRef(refs, tag, commit)
          /\ outputs' = UpdatedOutputs(tag, commit)
          /\ tpc' = "done"
          /\ UNCHANGED <<tagFailed, apiErr>>
       \/ /\ \E st \in WriteFailStatus :
                IF IsNotFound(st)
                THEN /\ tpc' = "createTag"
                     /\ apiErr' = apiErr \cup {<<"PATCH ref", st>>}
                     /\ UNCHANGED <<outputs, tagFailed>>
                ELSE CatchFailed("PATCH ref", st)
          /\ UNCHANGED refs
    /\ UNCHANGED <<defaultTip, tag, commit, commitInput, skipInput, lookupSha, runs, tagBefore, prev,
                   uncaught>>

\* lines 92-97 with createTag, lines 37-48; its error leaves main()
CreateTag ==
    /\ UNCHANGED <<replVars, pathVars, dlVars>>
    /\ tpc = "createTag"
    /\ reqs' = Append(reqs, "POST ref")
    /\ \/ /\ refs[tag] = NoRef
          /\ refs' = PostRef(refs, tag, commit)
          /\ outputs' = CreatedOutputs(tag, commit)
          /\ tpc' = "done"
          /\ UNCHANGED <<tagFailed, apiErr>>
       \/ /\ \E st \in WriteFailStatus : Unhandled("POST ref", st)
          /\ UNCHANGED <<refs, outputs>>
    /\ UNCHANGED <<defaultTip, tag, commit, commitInput, skipInput, lookupSha, runs, tagBefore, prev,
                   uncaught>>

(***************************************************************************)
(* The artifact replicators: src/unnamed/part_001 (replace) and            *)
(* src/unnamed/part_000, lines 115-592 (skip on conflict).                 *)
(***************************************************************************)
ArtifactNames == <<"A", "B", "C", "D">>
\* names the release may hold before the run
InitialAssetNames == {"x", "A_x"}
OldContent == "old"

\* an archive: its file entries, in order, each a directory and a base name
Entries == {[dir |-> "", name |-> "x"], [dir |-> "", name |-> "y"],
            [dir |-> "d/", name |-> "x"]}
Archives == UNION {[1..n -> Entries] : n \in 0..MaxFiles}

Range(f) == {f[i] : i \in DOMAIN f}
AssetNames(rel) == {a.name : a \in rel}
AssetIds(rel) == {a.id : a \in rel}

\* ---- the local disk: the paths that exist
WriteFile(d, p) == d \cup {p}
Unlink(d, ps) == d \ ps

\* ---- the hosting service
\* POST /releases/{release_id}/assets: a name the release holds is refused
CanPost(rel, name) == name \notin AssetNames(rel)
PostAsset(rel, id, name, content) ==
    rel \cup {[id |-> id, name |-> name, content |-> content]}
\* DELETE /releases/assets/{asset_id}
DeleteAsset(rel, id) == {a \in rel : a.id # id}

NoRun == [artifacts |-> <<>>, results |-> <<>>, release |-> {}, status |-> "none"]
NoArt == [de |-> "none", nfiles |-> 0, attempts |-> <<>>, uploaded |-> 0]
NoFile == [name |-> "", existed |-> FALSE, deleted |-> FALSE, uploaded |-> FALSE,
           content |-> <<>>, answer |-> "none"]

\* ---- paths
\* part_001 line 89: ./temp_<sanitizedName>.zip
ZipPath(name) == <<"temp_zip", name>>
\* part_001 line 115: ./temp_<Date.now()>_<basename>; the clock is the number
\* of milliseconds since the extraction of the artifact began
TempPath(a, ms, base) == <<"temp", a, ms, base>>
\* part_000 line 227: archived-artifacts/<sanitizedName>.zip
ArchivePath(name) == <<"archived-artifacts", name>>
\* part_000 line 483: extracted-artifacts/<artifact.name>
ExtractDir(name) == <<"extracted-artifacts", name>>
\* part_000 line 301: path.join(extractDir, sanitizedFileName)
OutputPath(name, e) == <<"extracted-artifacts", name, e.dir, e.name>>
Under(dir, p) == Len(p) >= 2 /\ p[1] = dir[1] /\ p[2] = dir[2]

\* the clock readings of the entries of an archive of n files: the clock
\* never runs backwards and two entries may be written in the same millisecond
Clocks(n) == {c \in [1..n -> 0..(n - 1)] :
                 /\ n > 0 => c[1] = 0
                 /\ \A j \in 1..(n - 1) : c[j + 1] \in {c[j], c[j] + 1}}

\* part_001 lines 114-121: the file records of the first k entries
TempFiles(a, arch, clk, k) ==
    [j \in 1..k |-> [name |-> arch[j].name,
                     path |-> TempPath(a, clk[j], arch[j].name),
                     content |-> <<a, j>>]]
\* part_000 lines 300-341: the file records of the first k entries
OutputFiles(a, arch, k) ==
    [j \in 1..k |-> [name |-> arch[j].name,
                     path |-> OutputPath(a, arch[j]),
                     content |-> <<a, j>>]]

RECURSIVE WriteAll(_, _, _)
WriteAll(d, fs, j) ==
    IF j > Len(fs) THEN d
    ELSE WriteAll(WriteFile(d, fs[j].path), fs, j + 1)

FileNameAlwaysPrefixed(n, artifactName, base) == artifactName \o "_" \o base
\* part_001 line 143
FileNameOf(n, artifactName, base) ==
    IF n = 1 THEN base ELSE artifactName \o "_" \o base
\* part_000 lines 513-515
UploadNameOf(n, artifactName, base) ==
    IF n = 1 THEN base ELSE artifactName \o "_" \o base

\* part_001 line 47 and part_000 line 556
NoFilesProcessed(total, n) == total = 0 /\ n > 0

\* ---- the configuration: strings are sequences of characters, one character
\* standing for each class the patterns tell apart
Chars == {"a", "7", ".", "-", "/", "+"}
Strings == UNION {[1..n -> Chars] : n \in 0..MaxLen}
\* the class [a-zA-Z0-9_.-] of repoPattern (part_001 line 59, part_000 line 140)
RepoClass == {"a", "7", "_", ".", "-"}
\* the class \d (part_001 line 63, part_000 lines 149 and 152)
DigitClass == {"7"}
\* the positions at which <class>+ can end when it starts after position i
PlusEnds(s, i, class) ==
    {j \in (i + 1)..Len(s) : \A k \in (i + 1)..j : s[k] \in class}
\* /^[a-zA-Z0-9_.-]+\/[a-zA-Z0-9_.-]+$/.test(s)
RepoPatternTest(s) ==
    \E j \in PlusEnds(s, 0, RepoClass) :
        /\ j < Len(s)
        /\ s[j + 1] = "/"
        /\ Len(s) \in PlusEnds(s, j + 1, RepoClass)
\* /^\d+$/.test(s)
NumericTestLoose(s) == \A k \in 1..Len(s) : s[k] \in DigitClass
NumericTest(s) == Len(s) \in PlusEnds(s, 0, DigitClass)
ValidateInputsAny(in) == TRUE
\* validateInputs returns without throwing: part_001 lines 58-66, part_000
\* lines 129-156
ValidateInputsOk(in) ==
    /\ RepoPatternTest(in.workflowRepo)
    /\ RepoPatternTest(in.releaseRepo)
    /\ NumericTest(in.workflowRunID)
    /\ NumericTest(in.releaseID)
GoodRepo == <<"a", "/", "7">>
GoodId == <<"7">>
GoodInputs == [workflowRepo |-> GoodRepo, releaseRepo |-> GoodRepo,
               workflowRunID |-> GoodId, releaseID |-> GoodId]
\* the configurations of the runs of Spec: a valid one, and one invalid in each field
SampleInputs ==
    {GoodInputs,
     [GoodInputs EXCEPT !.workflowRepo = <<"a">>],
     [GoodInputs EXCEPT !.releaseRepo = <<"a", "/", "/", "7">>],
     [GoodInputs EXCEPT !.workflowRunID = <<"-", "7">>],
     [GoodInputs EXCEPT !.releaseID = <<>>]}

\* ---- pieces of main() shared by the actions
\* the outer catch of main: part_001 lines 51-55, part_000 lines 560-570
\* error(`Action failed: ...`), setFailed(...), process.exit(1)
ActionFailedAfter(lg) ==
    /\ logged' = lg \cup {<<"error", "action">>}
    /\ status' = "failure"
    /\ setFailedCalled' = TRUE
    /\ pc' = "done"
ActionFailed == ActionFailedAfter(logged)
\* the uncaughtException handler: part_001 lines 229-233
UncaughtException ==
    /\ status' = "failure"
    /\ setFailedCalled' = TRUE
    /\ pc' = "done"
\* the for loop of part_001 line 35 moves to the next artifact
NextArtifact ==
    IF ai < Len(artifacts)
    THEN ai' = ai + 1 /\ pc' = "download"
    ELSE ai' = ai /\ pc' = "summary"
\* part_001 lines 40-42: the artifact failed
ArtifactFailed ==
    /\ art' = [art EXCEPT ![ai].de = "failed"]
    /\ logged' = logged \cup {<<"error", "artifact", ai>>}
    /\ NextArtifact

\* validateInputs as main calls it: part_001 line 16, part_000 line 456; a
\* throw is caught by the outer catch of main
ValidateInputs ==
    /\ variant \in {"replace", "skip"} /\ pc = "validate"
    /\ IF ValidateInputsOk(inputs)
       THEN /\ pc' = IF variant = "replace" THEN "getReleaseAssets" ELSE "getArtifacts"
            /\ UNCHANGED <<status, setFailedCalled, logged>>
       ELSE ActionFailed
    /\ UNCHANGED <<release, nextId, disk, variant, artifacts, existingAssets, ai,
                   files, fi, processedCount, totalProcessed, downloadResults,
                   uploadResults, uploadedCount, art, lastFile, posted, deleted,
                   requested, unlinkFailed, firstRun, inputs>>
    /\ UNCHANGED <<tagVars, pathVars, dlVars>>


(***************************************************************************)
(* The replace replicator, src/unnamed/part_001.                           *)
(***************************************************************************)
\* getReleaseAssets, lines 68-79
GetReleaseAssets ==
    /\ variant = "replace" /\ pc = "getReleaseAssets"
    /\ \/ /\ existingAssets' = {[name |-> a.name, id |-> a.id] : a \in release}
          /\ UNCHANGED logged
       \/ /\ existingAssets' = {}
          /\ logged' = logged \cup {<<"warning", "assets">>}
    /\ pc' = "getArtifacts"
    /\ UNCHANGED <<release, nextId, disk, variant, artifacts, ai, files, fi,
                   processedCount, totalProcessed, downloadResults, uploadResults,
                   uploadedCount, status, setFailedCalled, art, lastFile, posted,
                   deleted>>
    /\ requested' = requested \cup {"GET assets"}
    /\ UNCHANGED <<inputs, firstRun>>
    /\ UNCHANGED unlinkFailed
    /\ UNCHANGED <<tagVars, pathVars, dlVars>>

\* getArtifacts, lines 81-84, and lines 25-32 of main
GetArtifacts ==
    /\ variant = "replace" /\ pc = "getArtifacts"
    /\ \/ \E n \in 0..MaxArtifacts :
             /\ artifacts' = SubSeq(ArtifactNames, 1, n)
             /\ art' = [i \in 1..n |-> NoArt]
             /\ IF n = 0
                THEN /\ status' = "success"
                     /\ pc' = "done"
                     /\ UNCHANGED ai
                ELSE /\ pc' = "download"
                     /\ ai' = 1
                     /\ UNCHANGED status
             /\ totalProcessed' = 0
             /\ UNCHANGED <<setFailedCalled, logged>>
       \/ /\ ActionFailed
          /\ UNCHANGED <<artifacts, art, ai, totalProcessed>>
    /\ UNCHANGED <<release, nextId, disk, variant, existingAssets, files, fi,
                   processedCount, downloadResults, uploadResults, uploadedCount,
                   lastFile, posted, deleted>>
    /\ requested' = requested \cup {"GET artifacts"}
    /\ UNCHANGED <<inputs, firstRun>>
    /\ UNCHANGED unlinkFailed
    /\ UNCHANGED <<tagVars, pathVars, dlVars>>

\* downloadAndExtractArtifact, lines 86-97: the request and the write of the zip
DownloadAndExtractArtifact ==
    /\ variant = "replace" /\ pc = "download"
    /\ \/ /\ disk' = WriteFile(disk, ZipPath(artifacts[ai]))
          /\ pc' = "extract"
          /\ UNCHANGED <<ai, art, logged>>
       \/ \* the request or writeFileSync throws
          /\ ArtifactFailed
          /\ UNCHANGED disk
    /\ UNCHANGED <<release, nextId, variant, artifacts, existingAssets, files, fi,
                   processedCount, totalProcessed, downloadResults, uploadResults,
                   uploadedCount, status, setFailedCalled, lastFile, posted, deleted>>
    /\ requested' = requested \cup {"GET zip"}
    /\ UNCHANGED <<inputs, firstRun>>
    /\ UNCHANGED unlinkFailed
    /\ UNCHANGED <<tagVars, pathVars, dlVars>>

\* extractZipFiles, lines 106-135, and lines 100-103 of its caller
ExtractZipFiles ==
    /\ variant = "replace" /\ pc = "extract"
    /\ \E arch \in Archives :
       \E clk \in Clocks(Len(arch)) :
          \/ \* every entry is written, 'end' resolves the promise
             LET fs == TempFiles(artifacts[ai], arch, clk, Len(arch)) IN
             \/ \* line 101: the zip is removed, the files are returned
                /\ disk' = Unlink(WriteAll(disk, fs, 1), {ZipPath(artifacts[ai])})
                /\ files' = fs
                /\ fi' = 1
                /\ processedCount' = 0
                /\ art' = [art EXCEPT ![ai].de = "ok", ![ai].nfiles = Len(fs)]
                /\ pc' = "upload"
                /\ UNCHANGED <<ai, logged, status, setFailedCalled, unlinkFailed>>
             \/ \* line 101: unlinkSync throws
                /\ disk' = WriteAll(disk, fs, 1)
                /\ unlinkFailed' = unlinkFailed \cup {ZipPath(artifacts[ai])}
                /\ ArtifactFailed
                /\ UNCHANGED <<files, fi, processedCount, status, setFailedCalled>>
          \/ \* yauzl.open or openReadStream answers an error: reject (110, 118)
             \E k \in 0..Len(arch) :
                /\ k = 0 \/ k < Len(arch)
                /\ disk' = WriteAll(disk, TempFiles(artifacts[ai], arch, clk, k), 1)
                /\ ArtifactFailed
                /\ UNCHANGED <<files, fi, processedCount, status, setFailedCalled,
                               unlinkFailed>>
          \/ \* an 'error' event of the zipfile or of the write stream: no
             \* listener is registered, the error is an uncaught exception
             \E k \in 0..Len(arch) :
                /\ disk' = WriteAll(disk, TempFiles(artifacts[ai], arch, clk, k), 1)
                /\ UncaughtException
                /\ logged' = logged \cup {<<"error", "uncaught">>}
                /\ art' = [art EXCEPT ![ai].de = "crashed"]
                /\ UNCHANGED <<files, fi, processedCount, ai, unlinkFailed>>
    /\ UNCHANGED <<release, nextId, variant, artifacts, existingAssets,
                   totalProcessed, downloadResults, uploadResults, uploadedCount,
                   lastFile, posted, deleted>>
    /\ UNCHANGED requested
    /\ UNCHANGED <<inputs, firstRun>>
    /\ UNCHANGED <<tagVars, pathVars, dlVars>>

\* uploadNewAsset, lines 183-197: the file must exist (statSync), the service
\* refuses a name the release holds, and the request may fail
UploadNewAsset(rel, path, fileName, content) ==
    IF path \in disk /\ CanPost(rel, fileName)
    THEN {[ok |-> TRUE, release |-> PostAsset(rel, nextId, fileName, content)],
          [ok |-> FALSE, release |-> rel]}
    ELSE {[ok |-> FALSE, release |-> rel]}

\* updateExistingAsset, lines 163-181: the outcomes, with the ids deleted
UpdateExistingAsset(rel, assetId, path, fileName, content) ==
    LET gone == DeleteAsset(rel, assetId) IN
    \* line 165: the delete request fails
    {[ok |-> FALSE, release |-> rel, deleted |-> FALSE]}
    \cup
    (IF assetId \notin AssetIds(rel) THEN {}
     ELSE IF assetId \in AssetIds(gone)
     \* lines 174-176: the asset is still there, its release is uploaded to
     THEN {[ok |-> r.ok, release |-> r.release, deleted |-> TRUE] :
              r \in UploadNewAsset(gone, path, fileName, content)}
     \* lines 177-180: the asset is gone, the lookup of line 170 gave null
     ELSE {[ok |-> FALSE, release |-> gone, deleted |-> TRUE]})

NextFileAbort(j, n, ok) == IF ok THEN j + 1 ELSE n + 1
\* lines 141-158: the try/catch is inside the for loop, which goes on to the
\* next file whether the upload succeeded or threw
NextFile(j, n, ok) == j + 1

\* one turn of the loop of uploadFilesToRelease, lines 141-158
UploadFilesToRelease ==
    /\ variant = "replace" /\ pc = "upload"
    /\ fi <= Len(files)
    /\ LET f == files[fi]
           fileName == FileNameOf(Len(files), artifacts[ai], f.name)
           known == {e \in existingAssets : e.name = fileName}
           outcomes ==
               IF known # {}
               THEN UpdateExistingAsset(release, (CHOOSE e \in known : TRUE).id,
                                        f.path, fileName, f.content)
               ELSE {[ok |-> r.ok, release |-> r.release, deleted |-> FALSE] :
                        r \in UploadNewAsset(release, f.path, fileName, f.content)}
       IN \E o \in outcomes :
             /\ release' = o.release
             /\ nextId' = IF o.ok THEN nextId + 1 ELSE nextId
             /\ posted' = IF o.ok THEN posted + 1 ELSE posted
             /\ processedCount' = IF o.ok THEN processedCount + 1 ELSE processedCount
             /\ deleted' = IF known # {}
                           THEN Append(deleted, (CHOOSE e \in known : TRUE).id)
                           ELSE deleted
             /\ logged' = IF o.ok THEN logged
                          ELSE logged \cup {<<"error", "file", ai, fi>>}
             /\ lastFile' = [name |-> fileName, existed |-> known # {},
                             deleted |-> o.deleted, uploaded |-> o.ok,
                             content |-> f.content, answer |-> "none"]
             /\ art' = [art EXCEPT ![ai].attempts = Append(@, fi),
                                   ![ai].uploaded = IF o.ok THEN @ + 1 ELSE @]
             /\ fi' = NextFile(fi, Len(files), o.ok)
    /\ UNCHANGED <<disk, variant, pc, artifacts, existingAssets, ai, files,
                   totalProcessed, downloadResults, uploadResults, uploadedCount,
                   status, setFailedCalled>>
    /\ requested' = requested \cup {"asset"}
    /\ UNCHANGED <<inputs, firstRun>>
    /\ UNCHANGED unlinkFailed
    /\ UNCHANGED <<tagVars, pathVars, dlVars>>

\* lines 38-39 of main: the count is added, and cleanupFiles, lines 199-207
CleanupFiles ==
    /\ variant = "replace" /\ pc = "upload"
    /\ fi > Len(files)
    /\ totalProcessed' = totalProcessed + processedCount
    /\ \E kept \in SUBSET {f.path : f \in Range(files)} :
          /\ disk' = Unlink(disk, {f.path : f \in Range(files)} \ kept)
          /\ logged' = logged \cup {<<"warning", "cleanup", ai>> : p \in kept}
          /\ unlinkFailed' = unlinkFailed \cup kept
    /\ NextArtifact
    /\ UNCHANGED <<release, nextId, variant, artifacts, existingAssets, files, fi,
                   processedCount, downloadResults, uploadResults, uploadedCount,
                   status, setFailedCalled, art, lastFile, posted, deleted>>
    /\ UNCHANGED requested
    /\ UNCHANGED <<inputs, firstRun>>
    /\ UNCHANGED <<tagVars, pathVars, dlVars>>

\* lines 45-49 of main
Summary ==
    /\ variant = "replace" /\ pc = "summary"
    /\ IF NoFilesProcessed(totalProcessed, Len(artifacts))
       THEN ActionFailed
       ELSE /\ status' = "success"
            /\ pc' = "done"
            /\ UNCHANGED <<setFailedCalled, logged>>
    /\ UNCHANGED <<release, nextId, disk, variant, artifacts, existingAssets, ai,
                   files, fi, processedCount, totalProcessed, downloadResults,
                   uploadResults, uploadedCount, art, lastFile, posted, deleted>>
    /\ UNCHANGED requested
    /\ UNCHANGED <<inputs, firstRun>>
    /\ UNCHANGED unlinkFailed
    /\ UNCHANGED <<tagVars, pathVars, dlVars>>

(***************************************************************************)
(* The skip-on-conflict replicator, src/unnamed/part_000, lines 115-592.   *)
(***************************************************************************)
\* the download loop of line 477 moves to the next artifact, and after the
\* last one the upload loop of line 504 begins
NextDownload ==
    IF ai < Len(artifacts)
    THEN ai' = ai + 1 /\ pc' = "download"
    ELSE ai' = 1 /\ pc' = "uploadLoop"
\* lines 496-500: the artifact failed
DownloadFailed ==
    /\ downloadResults' = Append(downloadResults, [success |-> FALSE, extractedFiles |-> <<>>])
    /\ art' = [art EXCEPT ![ai].de = "failed"]
    /\ logged' = logged \cup {<<"error", "artifact", ai>>}
    /\ NextDownload

\* a second run is given the workflow run of the first: the artifacts listed
\* and their archives are those of the first run
SameWorkflowRun(n) == firstRun # NoRun => n = Len(firstRun.artifacts)
SameArchive(arch) ==
    firstRun # NoRun =>
        OutputFiles(artifacts[ai], arch, Len(arch)) = firstRun.results[ai].extractedFiles

\* getWorkflowArtifacts, lines 166-211, and lines 466-474 of main
GetWorkflowArtifacts ==
    /\ variant = "skip" /\ pc = "getArtifacts"
    /\ \/ \E n \in 0..MaxArtifacts :
             /\ SameWorkflowRun(n)
             /\ artifacts' = SubSeq(ArtifactNames, 1, n)
             /\ art' = [i \in 1..n |-> NoArt]
             /\ IF n = 0
                THEN /\ status' = "success"
                     /\ pc' = "done"
                     /\ UNCHANGED ai
                ELSE /\ pc' = "download"
                     /\ ai' = 1
                     /\ UNCHANGED status
             /\ downloadResults' = <<>>
             /\ uploadResults' = <<>>
             /\ UNCHANGED <<setFailedCalled, logged>>
       \/ /\ ActionFailed
          /\ UNCHANGED <<artifacts, art, ai, downloadResults, uploadResults>>
    /\ UNCHANGED <<release, nextId, disk, variant, existingAssets, files, fi,
                   processedCount, totalProcessed, uploadedCount, lastFile, posted,
                   deleted>>
    /\ requested' = requested \cup {"GET artifacts"}
    /\ UNCHANGED <<inputs, firstRun>>
    /\ UNCHANGED unlinkFailed
    /\ UNCHANGED <<tagVars, pathVars, dlVars>>

\* downloadArtifact, lines 213-276, called at line 480
DownloadArtifact ==
    /\ variant = "skip" /\ pc = "download"
    /\ \/ /\ disk' = WriteFile(disk, ArchivePath(artifacts[ai]))
          /\ pc' = "extract"
          /\ UNCHANGED <<ai, art, logged, downloadResults, unlinkFailed>>
       \/ \* the request or the write fails; no file is left (lines 253-264)
          /\ disk' = Unlink(disk, {ArchivePath(artifacts[ai])})
          /\ DownloadFailed
          /\ UNCHANGED unlinkFailed
       \/ \* the write fails and the partial file cannot be removed (line 262)
          /\ disk' = WriteFile(disk, ArchivePath(artifacts[ai]))
          /\ unlinkFailed' = unlinkFailed \cup {ArchivePath(artifacts[ai])}
          /\ DownloadFailed
    /\ UNCHANGED <<release, nextId, variant, artifacts, existingAssets, files, fi,
                   processedCount, totalProcessed, uploadResults, uploadedCount,
                   status, setFailedCalled, lastFile, posted, deleted>>
    /\ requested' = requested \cup {"GET zip"}
    /\ UNCHANGED <<inputs, firstRun>>
    /\ UNCHANGED <<tagVars, pathVars, dlVars>>

\* extractArtifact, lines 278-364, called at line 484, and lines 486-494
ExtractArtifact ==
    /\ variant = "skip" /\ pc = "extract"
    /\ \E arch \in Archives :
          /\ SameArchive(arch)
          /\ \/ \* every entry is written, 'end' resolves the promise
                LET fs == OutputFiles(artifacts[ai], arch, Len(arch)) IN
                /\ disk' = WriteAll(WriteFile(disk, ExtractDir(artifacts[ai])), fs, 1)
                /\ downloadResults' = Append(downloadResults,
                                             [success |-> TRUE, extractedFiles |-> fs])
                /\ art' = [art EXCEPT ![ai].de = "ok", ![ai].nfiles = Len(fs)]
                /\ NextDownload
                /\ UNCHANGED logged
             \/ \* the open, a read stream, a write stream or the zipfile answers
                \* an error: the promise is rejected (lines 292, 326, 333, 356)
                \E k \in 0..Len(arch) :
                   /\ disk' = WriteAll(WriteFile(disk, ExtractDir(artifacts[ai])),
                                       OutputFiles(artifacts[ai], arch, k), 1)
                   /\ DownloadFailed
    /\ UNCHANGED <<release, nextId, variant, artifacts, existingAssets, files, fi,
                   processedCount, totalProcessed, uploadResults, uploadedCount,
                   status, setFailedCalled, lastFile, posted, deleted>>
    /\ UNCHANGED requested
    /\ UNCHANGED <<inputs, firstRun>>
    /\ UNCHANGED unlinkFailed
    /\ UNCHANGED <<tagVars, pathVars, dlVars>>

\* lines 504-508: the next download result, failed ones being passed over
UploadLoop ==
    /\ variant = "skip" /\ pc = "uploadLoop"
    /\ IF ai > Len(downloadResults)
       THEN /\ pc' = "summary"
            /\ UNCHANGED <<ai, files, fi, uploadedCount>>
       ELSE IF ~downloadResults[ai].success
       THEN /\ ai' = ai + 1
            /\ UNCHANGED <<pc, files, fi, uploadedCount>>
       ELSE /\ files' = downloadResults[ai].extractedFiles
            /\ fi' = 1
            /\ uploadedCount' = 0
            /\ pc' = "upload"
            /\ UNCHANGED ai
    /\ UNCHANGED <<release, nextId, disk, variant, artifacts, existingAssets,
                   processedCount, totalProcessed, downloadResults, uploadResults,
                   status, setFailedCalled, art, lastFile, posted, deleted, logged>>
    /\ UNCHANGED requested
    /\ UNCHANGED <<inputs, firstRun>>
    /\ UNCHANGED unlinkFailed
    /\ UNCHANGED <<tagVars, pathVars, dlVars>>

\* uploadFileToRelease, lines 392-430: "ok" with the asset created, "exists"
\* for the 422 already_exists answer (null is returned), "error" for a throw
UploadAnswers(rel, fileName) ==
    IF CanPost(rel, fileName) THEN {"201", "422 other", "404", "500"}
    ELSE {"422 already_exists", "422 other", "404", "500"}
UploadResultSkipsAny422(answer) ==
    IF answer = "201" THEN "ok"
    ELSE IF answer \in {"422 already_exists", "422 other"} THEN "exists"
    ELSE "error"
\* lines 415-429: the asset data is returned, null is returned for a 422
\* whose message includes 'already_exists', every other error is thrown
UploadResult(answer) ==
    IF answer = "201" THEN "ok"
    ELSE IF answer = "422 already_exists" THEN "exists"
    ELSE "error"
UploadFileToReleaseOutcomes(rel, path, fileName, content) ==
    IF path \notin disk THEN {[res |-> "error", release |-> rel, answer |-> "none"]}
    ELSE {[res |-> UploadResult(a),
           release |-> IF a = "201" THEN PostAsset(rel, nextId, fileName, content)
                       ELSE rel,
           answer |-> a] : a \in UploadAnswers(rel, fileName)}

\* lines 510-533: the try/catch is inside the for loop, which goes on to the
\* next file whether the upload succeeded, was skipped or threw
NextExtractedFile(j, n, res) == j + 1

\* one turn of the loop of lines 510-533
UploadFileToRelease ==
    /\ variant = "skip" /\ pc = "upload"
    /\ fi <= Len(files)
    /\ LET f == files[fi]
           fileName == UploadNameOf(Len(files), artifacts[ai], f.name)
       IN \E o \in UploadFileToReleaseOutcomes(release, f.path, fileName, f.content) :
             /\ release' = o.release
             /\ nextId' = IF o.res = "ok" THEN nextId + 1 ELSE nextId
             /\ posted' = IF o.res = "ok" THEN posted + 1 ELSE posted
             /\ uploadedCount' = IF o.res = "ok" THEN uploadedCount + 1
                                 ELSE uploadedCount
             /\ logged' = CASE o.res = "ok" -> logged
                            [] o.res = "exists" ->
                                  logged \cup {<<"warning", "exists", ai, fi>>}
                            [] OTHER -> logged \cup {<<"error", "file", ai, fi>>}
             /\ lastFile' = [name |-> fileName, existed |-> ~CanPost(release, fileName),
                             deleted |-> FALSE, uploaded |-> o.res = "ok",
                             content |-> f.content, answer |-> o.answer]
             /\ art' = [art EXCEPT ![ai].attempts = Append(@, fi),
                                   ![ai].uploaded = IF o.res = "ok" THEN @ + 1 ELSE @]
             /\ fi' = NextExtractedFile(fi, Len(files), o.res)
    /\ UNCHANGED <<disk, variant, pc, artifacts, existingAssets, ai, files,
                   processedCount, totalProcessed, downloadResults, uploadResults,
                   status, setFailedCalled, deleted>>
    /\ requested' = requested \cup {"asset"}
    /\ UNCHANGED <<inputs, firstRun>>
    /\ UNCHANGED unlinkFailed
    /\ UNCHANGED <<tagVars, pathVars, dlVars>>

\* lines 535-543 with cleanupFiles, lines 432-448: the zip and the directory
CleanupFilesSkip ==
    /\ variant = "skip" /\ pc = "upload"
    /\ fi > Len(files)
    /\ uploadResults' = Append(uploadResults,
                               [uploadedCount |-> uploadedCount,
                                totalFiles |-> Len(files),
                                success |-> uploadedCount > 0 \/ Len(files) = 0])
    /\ \E zipGone \in BOOLEAN, dirGone \in BOOLEAN :
          /\ disk' = Unlink(disk,
                        (IF zipGone THEN {ArchivePath(artifacts[ai])} ELSE {})
                        \cup (IF dirGone
                              THEN {p \in disk : Under(ExtractDir(artifacts[ai]), p)}
                              ELSE {}))
          /\ logged' = logged \cup (IF zipGone /\ dirGone THEN {}
                                    ELSE {<<"warning", "cleanup", ai>>})
          /\ unlinkFailed' = unlinkFailed
                \cup (IF zipGone THEN {} ELSE {ArchivePath(artifacts[ai])} \cap disk)
                \cup (IF dirGone THEN {}
                      ELSE {p \in disk : Under(ExtractDir(artifacts[ai]), p)})
    /\ ai' = ai + 1
    /\ pc' = "uploadLoop"
    /\ UNCHANGED <<release, nextId, variant, artifacts, existingAssets, files, fi,
                   processedCount, totalProcessed, downloadResults, uploadedCount,
                   status, setFailedCalled, art, lastFile, posted, deleted>>
    /\ UNCHANGED requested
    /\ UNCHANGED <<inputs, firstRun>>
    /\ UNCHANGED <<tagVars, pathVars, dlVars>>

RECURSIVE SumTotalFiles(_, _)
SumTotalFiles(rs, j) ==
    IF j > Len(rs) THEN 0 ELSE rs[j].totalFiles + SumTotalFiles(rs, j + 1)
RECURSIVE SumUploaded(_, _)
\* line 549: the reduce over uploadResults
SumUploaded(rs, j) ==
    IF j > Len(rs) THEN 0 ELSE rs[j].uploadedCount + SumUploaded(rs, j + 1)

\* lines 546-558 of main
MainSummary ==
    /\ variant = "skip" /\ pc = "summary"
    /\ IF NoFilesProcessed(SumUploaded(uploadResults, 1), Len(artifacts))
       THEN ActionFailed
       ELSE /\ status' = "success"
            /\ pc' = "done"
            /\ UNCHANGED <<setFailedCalled, logged>>
    /\ UNCHANGED <<release, nextId, disk, variant, artifacts, existingAssets, ai,
                   files, fi, processedCount, totalProcessed, downloadResults,
                   uploadResults, uploadedCount, art, lastFile, posted, deleted>>
    /\ UNCHANGED requested
    /\ UNCHANGED <<inputs, firstRun>>
    /\ UNCHANGED unlinkFailed
    /\ UNCHANGED <<tagVars, pathVars, dlVars>>

\* the skip-on-conflict replicator is started again on the same release, after
\* a run that uploaded every file of at least one artifact: a new process in
\* a clean working directory, the release being what the first run left
Rerun ==
    /\ variant = "skip" /\ pc = "done" /\ firstRun = NoRun
    /\ status = "success" /\ Len(artifacts) > 0
    /\ \A i \in 1..Len(art) : art[i].de = "ok" /\ art[i].uploaded = art[i].nfiles
    /\ firstRun' = [artifacts |-> artifacts, results |-> downloadResults,
                    release |-> release, status |-> status]
    /\ pc' = "validate"
    /\ status' = "running"
    /\ artifacts' = <<>>
    /\ ai' = 1
    /\ files' = <<>>
    /\ fi' = 1
    /\ downloadResults' = <<>>
    /\ uploadResults' = <<>>
    /\ uploadedCount' = 0
    /\ art' = <<>>
    /\ lastFile' = NoFile
    /\ posted' = 0
    /\ deleted' = <<>>
    /\ logged' = {}
    /\ requested' = {}
    /\ disk' = {}
    /\ unlinkFailed' = {}
    /\ UNCHANGED <<release, nextId, variant, existingAssets, processedCount,
                   totalProcessed, setFailedCalled, inputs>>
    /\ UNCHANGED <<tagVars, pathVars, dlVars>>

(***************************************************************************)
(* The replicator of src/src/index.js. Its main() is synchronous: no       *)
(* request is awaited, so each octokit.request(...) yields a pending       *)
(* promise, whose .data is undefined.                                      *)
(***************************************************************************)
\* what reading a property of response.data does when the request was not
\* awaited: a TypeError is thrown
ReadOfData(prop) == "TypeError"

\* main, lines 7-139: the assets request is issued and line 28 throws into the
\* catch of line 31; the artifacts request is issued and line 37 throws into
\* the catch of line 134, which ends the process
IndexMain ==
    /\ variant = "index" /\ pc = "main"
    /\ requested' = requested \cup {"GET assets", "GET artifacts"}
    /\ existingAssets' = {}
    /\ LET lg == logged \cup (IF ReadOfData("forEach") = "TypeError"
                               THEN {<<"warning", "assets">>} ELSE {})
       IN IF ReadOfData("artifacts") = "TypeError"
          THEN ActionFailedAfter(lg)
          ELSE /\ pc' = "done" /\ status' = "success" /\ logged' = lg
               /\ UNCHANGED setFailedCalled
    /\ UNCHANGED <<release, nextId, disk, variant, artifacts, ai, files, fi,
                   processedCount, totalProcessed, downloadResults, uploadResults,
                   uploadedCount, art, lastFile, posted, deleted, unlinkFailed,
                   firstRun, inputs>>
    /\ UNCHANGED <<tagVars, pathVars, dlVars>>

(***************************************************************************)
(* Path derivations of the replicators. A string is a sequence of tokens:  *)
(* "/" and "." are the characters, any other token stands for a run of     *)
(* characters that are neither. A path is kept as path.normalize leaves    *)
(* it: the sequence of its segments (a trailing separator is not kept).    *)
(***************************************************************************)
NameChars == {"a", ".", "/"}
Names == UNION {[1..n -> NameChars] : n \in 0..MaxName}
DotDot == <<".", ".">>

\* str.replace(/\.\./g, ''): part_000 line 300, part_001 line 114
RECURSIVE RemoveDotDot(_)
RemoveDotDot(s) ==
    IF Len(s) < 2 THEN s
    ELSE IF s[1] = "." /\ s[2] = "." THEN RemoveDotDot(SubSeq(s, 3, Len(s)))
    ELSE <<s[1]>> \o RemoveDotDot(Tail(s))
\* str.replace(/^\/+/, ''): part_000 line 300, part_001 line 114
RECURSIVE StripLeadingSlashes(_)
StripLeadingSlashes(s) ==
    IF s # <<>> /\ s[1] = "/" THEN StripLeadingSlashes(Tail(s)) ELSE s
SanitizeEntryKeep(s) == StripLeadingSlashes(s)
\* sanitizedFileName / sanitizedPath
SanitizeEntry(s) == StripLeadingSlashes(RemoveDotDot(s))
\* artifact.name.replace(/[^a-zA-Z0-9_.-]/g, '_'): part_000 line 226,
\* part_001 line 88
SanitizeName(s) == [k \in 1..Len(s) |-> IF s[k] = "/" THEN "_" ELSE s[k]]

\* the segments of a string, split at "/"
RECURSIVE SplitPath(_, _)
SplitPath(s, cur) ==
    IF s = <<>> THEN <<cur>>
    ELSE IF s[1] = "/" THEN <<cur>> \o SplitPath(Tail(s), <<>>)
    ELSE SplitPath(Tail(s), Append(cur, s[1]))
\* path.normalize of a relative path: empty and "." segments dropped, ".."
\* cancels the segment before it, or stays when there is none
RECURSIVE NormalizeSegs(_, _)
NormalizeSegs(segs, acc) ==
    IF segs = <<>> THEN acc
    ELSE LET g == Head(segs) IN
         IF g = <<>> \/ g = <<".">> THEN NormalizeSegs(Tail(segs), acc)
         ELSE IF g = DotDot /\ acc # <<>> /\ acc[Len(acc)] # DotDot
              THEN NormalizeSegs(Tail(segs), SubSeq(acc, 1, Len(acc) - 1))
              ELSE NormalizeSegs(Tail(segs), Append(acc, g))
Normalize(s) == NormalizeSegs(SplitPath(s, <<>>), <<>>)
\* the string of a normalized path: its segments joined by "/", "." when empty
RECURSIVE PathString(_)
PathString(p) ==
    IF p = <<>> THEN <<".">>
    ELSE IF Len(p) = 1 THEN p[1]
    ELSE p[1] \o <<"/">> \o PathString(Tail(p))
\* path.join(a, b) of two strings, a not empty
PathJoin(a, b) == Normalize(IF b = <<>> THEN a ELSE a \o <<"/">> \o b)
\* str.startsWith(prefix)
StartsWith(s, prefix) ==
    Len(s) >= Len(prefix) /\ SubSeq(s, 1, Len(prefix)) = prefix
\* path.basename(s)
Basename(s) ==
    LET segs == SelectSeq(SplitPath(s, <<>>), LAMBDA g : g # <<>>)
    IN IF segs = <<>> THEN <<>> ELSE segs[Len(segs)]
\* /\/$/.test(entry.fileName)
IsDirectoryEntry(s) == s # <<>> /\ s[Len(s)] = "/"

\* part_001 line 89: `./temp_${sanitizedName}.zip`
TempZipPath(name) == Normalize(<<".", "/", "temp_">> \o SanitizeName(name) \o <<".zip">>)
\* part_000 line 227: path.join(downloadDir, `${sanitizedName}.zip`)
ArchiveFilePath(name) ==
    PathJoin(<<".", "/", "archived-artifacts">>, SanitizeName(name) \o <<".zip">>)
\* part_000 line 483: path.join('./extracted-artifacts', artifact.name)
ExtractDirPath(name) == PathJoin(<<".", "/", "extracted-artifacts">>, name)
\* part_000 line 301: path.join(extractDir, sanitizedFileName)
EntryOutputPath(dir, entry) == PathJoin(PathString(dir), SanitizeEntry(entry))
\* part_001 line 115: `./temp_${Date.now()}_${path.basename(sanitizedPath)}`
EntryTempPath(entry) ==
    Normalize(<<".", "/", "temp_", "now", "_">> \o Basename(SanitizeEntry(entry)))

\* part_001 lines 86-89 and part_000 lines 225-227, 483: the paths made from
\* the name of the artifact
DerivePaths ==
    /\ xpc = "derive"
    /\ xzip' = IF xvariant = "replace" THEN TempZipPath(xartifact)
               ELSE ArchiveFilePath(xartifact)
    /\ xdir' = IF xvariant = "replace" THEN <<>> ELSE ExtractDirPath(xartifact)
    /\ xpc' = "extract"
    /\ UNCHANGED <<xvariant, xartifact, xentry, xcreated, xwarned>>
    /\ UNCHANGED <<tagVars, replVars, dlVars>>

\* the 'entry' handler: part_000 lines 298-341, part_001 lines 112-126
ExtractEntry ==
    /\ xpc = "extract"
    /\ IF xvariant = "skip"
       THEN LET outputPath == EntryOutputPath(xdir, xentry) IN
            IF ~StartsWith(PathString(outputPath), PathString(xdir))
            THEN xwarned' = TRUE /\ xcreated' = xcreated
            ELSE xwarned' = xwarned /\ xcreated' = xcreated \cup {outputPath}
       ELSE /\ xwarned' = xwarned
            /\ xcreated' = IF IsDirectoryEntry(xentry) THEN xcreated
                           ELSE xcreated \cup {EntryTempPath(xentry)}
    /\ xpc' = "done"
    /\ UNCHANGED <<xvariant, xartifact, xentry, xzip, xdir>>
    /\ UNCHANGED <<tagVars, replVars, dlVars>>

(***************************************************************************)
(* The zip-upload replicator, src/unnamed/part_003: downloadArtifact for   *)
(* one artifact, and what main records of it. Time advances in steps of    *)
(* the socket timeout; a timer that is due fires before time advances.     *)
(***************************************************************************)
TickMs == connectionTimeoutMs
Active == dphase \in {"connecting", "transferring"}
\* the timer of lines 135-138 is due
OverallDue == dtimer /\ dnow - dtimerStart >= timeoutMs
\* the socket has been idle for the timeout given at line 146
IdleDue == Active /\ dnow - dlast >= connectionTimeoutMs

\* cleanup, lines 122-133: the stream is destroyed and the file unlinked
Cleanup(f) == FALSE
\* reject(...) followed by nothing: the promise of downloadArtifact is settled
Reject(reason) ==
    /\ dresult' = reason
    /\ dphase' = "done"
    /\ dfile' = Cleanup(dfile)
    /\ UNCHANGED <<dnow, dreqs, dtimerStart, dlast, dmarked>>

\* main line 272 calls downloadArtifact: lines 100-146
StartDownload ==
    /\ dphase = "idle"
    /\ dphase' = "connecting"
    /\ dfile' = TRUE
    /\ dtimer' = TRUE
    /\ dtimerStart' = dnow
    /\ dlast' = dnow
    /\ dreqs' = 1
    /\ UNCHANGED <<dnow, dresult, dmarked, dopen>>
    /\ UNCHANGED <<tagVars, replVars, pathVars>>

\* time passes
Tick ==
    /\ Active
    /\ ~OverallDue /\ ~IdleDue
    /\ dnow < MaxTicks * TickMs
    /\ dnow' = dnow + TickMs
    /\ UNCHANGED <<dphase, dreqs, dtimer, dtimerStart, dlast, dfile, dresult, dmarked, dopen>>
    /\ UNCHANGED <<tagVars, replVars, pathVars>>

\* bytes move on the socket: the connection is set up, headers or data arrive
SocketActivity ==
    /\ Active
    /\ dlast < dnow
    /\ dlast' = dnow
    /\ UNCHANGED <<dphase, dnow, dreqs, dtimer, dtimerStart, dfile, dresult, dmarked, dopen>>
    /\ UNCHANGED <<tagVars, replVars, pathVars>>

\* the callback of setTimeout, lines 135-138
OverallTimeout ==
    /\ Active /\ OverallDue
    /\ dtimer' = FALSE
    /\ Reject("download timeout")
    /\ dopen' = TRUE
    /\ UNCHANGED <<tagVars, replVars, pathVars>>

\* request.on('timeout'), lines 195-200
ConnectionTimeout ==
    /\ IdleDue
    /\ dtimer' = FALSE
    /\ Reject("connection timeout")
    /\ UNCHANGED dopen
    /\ UNCHANGED <<tagVars, replVars, pathVars>>

\* the response callback for a 301 or 302 with a location header, lines
\* 147-161: the timer is cleared and downloadArtifact calls itself with the
\* new URL, which sets a new stream, a new timer and a new request
ResponseRedirect ==
    /\ dphase = "connecting"
    /\ dreqs < MaxRequests
    /\ dreqs' = dreqs + 1
    /\ dtimer' = TRUE
    /\ dtimerStart' = dnow
    /\ dlast' = dnow
    /\ dfile' = TRUE
    /\ UNCHANGED <<dphase, dnow, dresult, dmarked, dopen>>
    /\ UNCHANGED <<tagVars, replVars, pathVars>>

\* the same callback when it runs after the timer of line 135 has rejected:
\* the timer's callback does not destroy the request, so a redirect that
\* arrives later still starts a download, which creates the file again
LateRedirect ==
    /\ dopen
    /\ dreqs < MaxRequests
    /\ dreqs' = dreqs + 1
    /\ dfile' = TRUE
    /\ dopen' = FALSE
    /\ UNCHANGED <<dphase, dnow, dtimer, dtimerStart, dlast, dresult, dmarked>>
    /\ UNCHANGED <<tagVars, replVars, pathVars>>

\* the response callback for a status other than 200 (a redirect without a
\* location included), lines 148 and 163-167
ResponseError ==
    /\ dphase = "connecting"
    /\ dtimer' = FALSE
    /\ Reject("http status")
    /\ UNCHANGED dopen
    /\ UNCHANGED <<tagVars, replVars, pathVars>>

\* the response callback for a 200, lines 148 and 169-186: the timer is
\* cleared and the body is piped to the file
ClearTimeout(t) == FALSE
ResponseOk ==
    /\ dphase = "connecting"
    /\ dtimer' = ClearTimeout(dtimer)
    /\ dphase' = "transferring"
    /\ dlast' = dnow
    /\ UNCHANGED <<dnow, dreqs, dtimerStart, dfile, dresult, dmarked, dopen>>
    /\ UNCHANGED <<tagVars, replVars, pathVars>>

\* file.on('finish'), lines 176-181
Finish ==
    /\ dphase = "transferring"
    /\ ~IdleDue
    /\ dresult' = "resolved"
    /\ dphase' = "done"
    /\ UNCHANGED <<dnow, dreqs, dtimer, dtimerStart, dlast, dfile, dmarked, dopen>>
    /\ UNCHANGED <<tagVars, replVars, pathVars>>

\* the connection is closed by the server in the middle of the body, after
\* the response callback has run (lines 169-181). The response emits 'aborted'
\* and 'close' and, having no 'error' listener, no 'error'; the request emits
\* no 'error' once the response has begun; pipe does not end the file when
\* its source closes without 'end', so 'finish' is never emitted. The timer
\* was cleared at line 148 and the socket is gone: nothing is left that could
\* settle the promise.
ResponseAborted ==
    /\ dphase = "transferring"
    /\ dphase' = "hung"
    /\ UNCHANGED <<dnow, dreqs, dtimer, dtimerStart, dlast, dfile, dresult, dmarked, dopen>>
    /\ UNCHANGED <<tagVars, replVars, pathVars>>

\* request.on('error'), lines 189-193, and file.on('error'), lines 183-186
RequestError ==
    /\ Active
    /\ dtimer' = ClearTimeout(dtimer)
    /\ Reject("network error")
    /\ UNCHANGED dopen
    /\ UNCHANGED <<tagVars, replVars, pathVars>>

\* main, lines 272-278: the result is pushed to downloadResults and the loop
\* goes to the next artifact
RecordDownload ==
    /\ dphase = "done"
    /\ dmarked' = IF dresult = "resolved" THEN "success" ELSE "failed"
    /\ dphase' = "recorded"
    /\ UNCHANGED <<dnow, dreqs, dtimer, dtimerStart, dlast, dfile, dresult, dopen>>
    /\ UNCHANGED <<tagVars, replVars, pathVars>>

DownloadIdle ==
    /\ dphase = "recorded"
    /\ dnow = 0
    /\ dreqs = 0
    /\ dtimer = FALSE
    /\ dtimerStart = 0
    /\ dlast = 0
    /\ dfile = FALSE
    /\ dresult = "pending"
    /\ dmarked = "none"
    /\ dopen = FALSE

(***************************************************************************)
(* The specifications.                                                     *)
(***************************************************************************)
\* the release before the run: empty, or holding the initial names with old
\* content
InitialAssets ==
    {[id |-> IF n = "x" THEN 1 ELSE 2, name |-> n, content |-> OldContent] :
        n \in InitialAssetNames}
InitialReleases == {{}, InitialAssets}

ReplIdle ==
    /\ release = {}
    /\ nextId = 3
    /\ disk = {}
    /\ variant = "replace"
    /\ pc = "done"
    /\ artifacts = <<>>
    /\ existingAssets = {}
    /\ ai = 1
    /\ files = <<>>
    /\ fi = 1
    /\ processedCount = 0
    /\ totalProcessed = 0
    /\ downloadResults = <<>>
    /\ uploadResults = <<>>
    /\ uploadedCount = 0
    /\ status = "success"
    /\ setFailedCalled = FALSE
    /\ art = <<>>
    /\ lastFile = NoFile
    /\ posted = 0
    /\ deleted = <<>>
    /\ logged = {}
    /\ requested = {}
    /\ unlinkFailed = {}
    /\ firstRun = NoRun
    /\ inputs = GoodInputs

ReplFresh ==
    /\ release \in InitialReleases
    /\ nextId = 3
    /\ disk = {}
    /\ variant \in {"replace", "skip", "index"}
    /\ pc = IF variant = "index" THEN "main" ELSE "validate"
    /\ artifacts = <<>>
    /\ existingAssets = {}
    /\ ai = 1
    /\ files = <<>>
    /\ fi = 1
    /\ processedCount = 0
    /\ totalProcessed = 0
    /\ downloadResults = <<>>
    /\ uploadResults = <<>>
    /\ uploadedCount = 0
    /\ status = "running"
    /\ setFailedCalled = FALSE
    /\ art = <<>>
    /\ lastFile = NoFile
    /\ posted = 0
    /\ deleted = <<>>
    /\ logged = {}
    /\ requested = {}
    /\ unlinkFailed = {}
    /\ firstRun = NoRun

ReplInit == ReplFresh /\ inputs \in SampleInputs

TagIdle ==
    /\ refs = [t \in Tags |-> NoRef]
    /\ defaultTip = "c1"
    /\ tpc = "done"
    /\ tag = "t1"
    /\ commit = ""
    /\ commitInput = ""
    /\ skipInput = ""
    /\ lookupSha = NoRef
    /\ outputs = NoOutputs
    /\ tagFailed = FALSE
    /\ reqs = <<>>
    /\ apiErr = {}
    /\ runs = MaxRuns
    /\ tagBefore = NoRef
    /\ prev = NoPrev
    /\ uncaught = FALSE

PathIdle ==
    /\ xpc = "done"
    /\ xvariant = "skip"
    /\ xartifact = <<"a">>
    /\ xentry = <<"a">>
    /\ xzip = <<>>
    /\ xdir = <<>>
    /\ xcreated = {}
    /\ xwarned = FALSE

Init == ReplInit /\ TagIdle /\ PathIdle /\ DownloadIdle

Next ==
    \/ ValidateInputs
    \/ GetReleaseAssets
    \/ GetArtifacts
    \/ DownloadAndExtractArtifact
    \/ ExtractZipFiles
    \/ UploadFilesToRelease
    \/ CleanupFiles
    \/ Summary
    \/ GetWorkflowArtifacts
    \/ DownloadArtifact
    \/ ExtractArtifact
    \/ UploadLoop
    \/ UploadFileToRelease
    \/ CleanupFilesSkip
    \/ MainSummary
    \/ IndexMain

Spec == Init /\ [][Next]_vars

\* the skip-on-conflict replicator run twice on the same release
RerunInit ==
    /\ ReplFresh /\ variant = "skip"
    /\ inputs = GoodInputs
    /\ TagIdle
    /\ PathIdle
    /\ DownloadIdle
RerunNext ==
    \/ ValidateInputs
    \/ GetWorkflowArtifacts
    \/ DownloadArtifact
    \/ ExtractArtifact
    \/ UploadLoop
    \/ UploadFileToRelease
    \/ CleanupFilesSkip
    \/ MainSummary
    \/ Rerun
SpecRerun == RerunInit /\ [][RerunNext]_vars

\* validateInputs on its own, over every string of the bounded alphabet in one
\* field at a time
RepoSamples == {GoodRepo, <<"a">>}
IdSamples == {GoodId, <<"-", "7">>}
\* the configuration whose field f is x, the other fields being samples
WideInputs(f, x, w, r, n, m) ==
    [workflowRepo |-> IF f = 1 THEN x ELSE w,
     releaseRepo |-> IF f = 2 THEN x ELSE r,
     workflowRunID |-> IF f = 3 THEN x ELSE n,
     releaseID |-> IF f = 4 THEN x ELSE m]
ValidateInit ==
    /\ ReplFresh /\ variant # "index"
    /\ \E f \in 1..4, x \in Strings, w \in RepoSamples, r \in RepoSamples,
          n \in IdSamples, m \in IdSamples :
          inputs = WideInputs(f, x, w, r, n, m)
    /\ TagIdle
    /\ PathIdle
    /\ DownloadIdle
ValidateNext == ValidateInputs
SpecValidate == ValidateInit /\ [][ValidateNext]_vars

\* one artifact name and one entry name: every name of the bounded alphabet
\* for one of the two, a sample for the other
SampleNames == {<<"a">>, <<"a", "/", "a">>}
PathInit ==
    /\ xpc = "derive"
    /\ xvariant \in {"replace", "skip"}
    /\ \/ xartifact \in Names \ {<<>>} /\ xentry \in SampleNames
       \/ xartifact \in SampleNames /\ xentry \in Names \ {<<>>}
    /\ xzip = <<>>
    /\ xdir = <<>>
    /\ xcreated = {}
    /\ xwarned = FALSE
    /\ ReplIdle
    /\ TagIdle
    /\ DownloadIdle
PathNext == DerivePaths \/ ExtractEntry
SpecPaths == PathInit /\ [][PathNext]_vars

DownloadInit ==
    /\ dphase = "idle"
    /\ dnow = 0
    /\ dreqs = 0
    /\ dtimer = FALSE
    /\ dtimerStart = 0
    /\ dlast = 0
    /\ dfile = FALSE
    /\ dresult = "pending"
    /\ dmarked = "none"
    /\ dopen = FALSE
    /\ ReplIdle
    /\ TagIdle
    /\ PathIdle
DownloadNext ==
    \/ StartDownload
    \/ Tick
    \/ SocketActivity
    \/ OverallTimeout
    \/ ConnectionTimeout
    \/ ResponseRedirect
    \/ LateRedirect
    \/ ResponseError
    \/ ResponseOk
    \/ Finish
    \/ ResponseAborted
    \/ RequestError
    \/ RecordDownload
SpecDownload == DownloadInit /\ [][DownloadNext]_vars
\* the event loop runs every callback that is due, and time passes
SpecDownloadLive == DownloadInit /\ [][DownloadNext]_vars /\ WF_vars(DownloadNext)

TagFlowInit ==
    /\ refs \in [Tags -> Commits \cup {NoRef}]
    /\ defaultTip \in Commits
    /\ tpc = "idle"
    /\ tag = "t1"
    /\ commit = ""
    /\ commitInput = ""
    /\ skipInput = ""
    /\ lookupSha = NoRef
    /\ outputs = NoOutputs
    /\ tagFailed = FALSE
    /\ reqs = <<>>
    /\ apiErr = {}
    /\ runs = 0
    /\ tagBefore = NoRef
    /\ prev = NoPrev
    /\ uncaught = FALSE

TagNext ==
    \/ TagStart
    \/ TagMain
    \/ GetDefaultBranch
    \/ GetLatestCommit
    \/ LookupTag
    \/ UpdateTag
    \/ CreateTag

TagInit == TagFlowInit /\ ReplIdle /\ PathIdle /\ DownloadIdle

SpecTag == TagInit /\ [][TagNext]_vars

(***************************************************************************)
(* Claims about the replicators, checked under Spec.                       *)
(***************************************************************************)
RunEnded == pc = "done" /\ status # "running"
Listed == Len(artifacts) > 0
\* the download or the extraction of artifact i failed
FailedDE(i) == art[i].de \in {"failed", "crashed"}
\* the upload loop of artifact i is over
UploadsOver(i) ==
    /\ art[i].de = "ok"
    /\ \/ pc \in {"summary", "done"}
       \/ variant = "replace" /\ i < ai
       \/ variant = "skip" /\ pc \in {"uploadLoop", "upload"} /\ i < ai
UpTo(n) == [j \in 1..n |-> j]

\* C1: a run that listed at least one artifact ends with the failure signal
\* if and only if no file was uploaded; with at least one uploaded file it
\* ends in success whatever failed.
C1_FailureIffNoUpload ==
    (RunEnded /\ Listed) =>
        /\ (status = "failure") <=> (posted = 0)
        /\ (status = "failure") <=> setFailedCalled

\* C2: when the download or the extraction of artifact A fails, no file of A
\* is uploaded, A is recorded as failed and every later artifact is still
\* downloaded, extracted and uploaded; for [A, B] with A's download failing and
\* B succeeding, the count is B's file count and the run ends in success.
C2_FailedArtifactIsolated ==
    (RunEnded /\ Listed) =>
        \A i \in 1..Len(artifacts) :
            FailedDE(i) =>
                /\ art[i].attempts = <<>>
                /\ art[i].uploaded = 0
                /\ <<"error", "artifact", i>> \in logged
                /\ \A j \in (i + 1)..Len(artifacts) :
                      /\ art[j].de # "none"
                      /\ art[j].de = "ok" => art[j].attempts = UpTo(art[j].nfiles)
                /\ (\A j \in (i + 1)..Len(artifacts) :
                        art[j].de = "ok" /\ art[j].uploaded = art[j].nfiles
                        /\ art[j].nfiles > 0)
                   /\ i < Len(artifacts)
                   => status = "success"

C4_ReplacedByNewContent ==
    (variant = "replace" /\ lastFile.existed /\ lastFile.deleted) =>
        /\ Cardinality({a \in release : a.name = lastFile.name}) = 1
        /\ \A a \in release : a.name = lastFile.name => a.content = lastFile.content

(***************************************************************************)
(* Claims about the tag flow, checked under SpecTag.                       *)
(***************************************************************************)
TagDone == tpc = "done"
LookupNotFound == <<"GET ref", NotFound>> \in apiErr
Failed(req) == \E e \in apiErr : e[1] = req
\* the lookup answered with a ref that points at another commit than the desired one
PointsElsewhere == lookupSha # NoRef /\ lookupSha # commit

\* C5: when the lookup of the tag answers not-found, a create-ref request for
\* the tag at the target commit is issued and, when it succeeds, the result is
\* created with outputs tag and commit, and the tag then points at the target.
C5_CreateOnNotFound ==
    (TagDone /\ LookupNotFound) =>
        /\ reqs[Len(reqs)] = "POST ref"
        /\ ~Failed("POST ref") =>
              /\ outputs = [result |-> "created", tag |-> tag, commit |-> commit]
              /\ refs[tag] = commit
              /\ commit \in Commits
              /\ ~tagFailed
C5_Witness ==
    /\ TagDone /\ LookupNotFound /\ ~Failed("POST ref")
    /\ tagBefore = NoRef /\ refs[tag] = commit

\* C6: when the tag exists at C1, the desired commit is C2 # C1 and skip_update
\* is not 'true', the update-ref request is issued and, when it succeeds, the
\* result is updated with commit C2 and the tag then points at C2.
C6_ForceUpdate ==
    (TagDone /\ PointsElsewhere /\ skipInput # "true") =>
        /\ "PATCH ref" \in {reqs[i] : i \in 1..Len(reqs)}
        /\ ~Failed("PATCH ref") =>
              /\ outputs = [result |-> "updated", tag |-> tag, commit |-> commit]
              /\ refs[tag] = commit
              /\ ~tagFailed
C6_Witness ==
    /\ TagDone /\ PointsElsewhere /\ skipInput = "false" /\ ~Failed("PATCH ref")
    /\ tagBefore = "c1" /\ commit = "c2" /\ refs[tag] = "c2"

\* C7: when the tag exists, points at another commit than the desired one and
\* skip_update is 'true', no write request is issued, the tag is unchanged, the
\* result is skipped and the commit output is the tag's current target.
C7_SkipLeavesTag ==
    (TagDone /\ PointsElsewhere /\ skipInput = "true") =>
        /\ Writes(reqs) = 0
        /\ refs[tag] = tagBefore
        /\ outputs = [result |-> "skipped", tag |-> tag, commit |-> refs[tag]]
        /\ outputs.commit # commit
        /\ ~tagFailed
C7_Witness ==
    /\ TagDone /\ PointsElsewhere /\ skipInput = "true"
    /\ outputs.result = "skipped" /\ refs[tag] = "c1" /\ commit = "c2"

\* C8: running the flow twice in a row with the same tag and commit, the tag
\* being absent at first: the first run creates it with one create-ref write,
\* the second run issues no write, leaves the tag at the commit and, its lookup
\* answered, reports created with that commit.
FirstCreated(r) == r.before = NoRef /\ r.result = "created" /\ ~r.failed
C8_Idempotent ==
    /\ (TagDone /\ tagBefore = NoRef /\ outputs.result = "created") =>
          /\ Writes(reqs) = 1
          /\ reqs[Len(reqs)] = "POST ref"
    /\ (TagDone /\ FirstCreated(prev) /\ prev.tag = tag /\ prev.commit = commit) =>
          /\ prev.writes = 1
          /\ Writes(reqs) = 0
          /\ refs[tag] = commit
          /\ lookupSha # NoRef =>
                outputs = [result |-> "created", tag |-> tag, commit |-> commit]
C8_Witness ==
    /\ TagDone /\ FirstCreated(prev) /\ prev.tag = tag /\ prev.commit = commit
    /\ lookupSha = commit /\ outputs.result = "created" /\ Writes(reqs) = 0

\* C9: every invocation issues exactly one write request when it creates or
\* updates the tag, none when the tag is already correct or the update is
\* skipped, and never two, whatever the API answers.
C9_AtMostOneWrite ==
    /\ Writes(reqs) <= 1
    /\ (TagDone /\ outputs.result = "updated") => Writes(reqs) = 1
    /\ (TagDone /\ outputs.result = "skipped") => Writes(reqs) = 0
    /\ (TagDone /\ outputs.result = "created") =>
          Writes(reqs) = (IF lookupSha = NoRef THEN 1 ELSE 0)

\* C10: every failure of the lookup (other than not-found), of create-ref or of
\* update-ref ends the invocation failed, with result = failed and empty tag
\* and commit outputs.
TagRequestFailed ==
    \E e \in apiErr : /\ e[1] \in {"GET ref", "PATCH ref", "POST ref"}
                      /\ e # <<"GET ref", NotFound>>
C10_FailureReported ==
    (TagDone /\ TagRequestFailed) =>
        /\ tagFailed
        /\ outputs.result = "failed"
        /\ outputs.tag \in {"", Unset}
        /\ outputs.commit \in {"", Unset}

\* C11: a non-empty commit input is the target verbatim and neither the
\* get-repository nor the get-commit request is issued; with an empty input
\* the flow requests the repository, then the default branch's tip commit, and
\* only then looks the tag up, with that tip as the target.
Requested(r) == r \in {reqs[i] : i \in 1..Len(reqs)}
C11_CommitResolution ==
    /\ commitInput # "" =>
          /\ commit = commitInput
          /\ ~Requested("GET repo") /\ ~Requested("GET commit")
          /\ Requested("GET ref") => reqs[1] = "GET ref"
    /\ (commitInput = "" /\ (tpc = "lookup" \/ Requested("GET ref"))) =>
          /\ Len(reqs) >= 2
          /\ reqs[1] = "GET repo" /\ reqs[2] = "GET commit"
          /\ Requested("GET ref") => reqs[3] = "GET ref"
          /\ commit = defaultTip
    /\ (TagDone /\ ~tagFailed /\ outputs.result \in {"created", "updated"}) =>
          refs[tag] = (IF commitInput # "" THEN commitInput ELSE defaultTip)
C11_Witness ==
    /\ TagDone /\ commitInput = "" /\ ~tagFailed
    /\ reqs = <<"GET repo", "GET commit", "GET ref", "POST ref">>
    /\ refs[tag] = defaultTip /\ tagBefore = NoRef

(***************************************************************************)
(* Claims about the configuration of the replicators.                      *)
(***************************************************************************)
\* the well-formed configurations, as the claims word them
SlashCount(s) == Cardinality({k \in 1..Len(s) : s[k] = "/"})
WellFormedRepo(s) ==
    /\ SlashCount(s) = 1
    /\ s[1] # "/" /\ s[Len(s)] # "/"
    /\ \A k \in 1..Len(s) : s[k] \in {"a", "7", "_", ".", "-", "/"}
WellFormedId(s) == Len(s) > 0 /\ \A k \in 1..Len(s) : s[k] = "7"
WellFormedConfig(in) ==
    /\ WellFormedRepo(in.workflowRepo) /\ WellFormedRepo(in.releaseRepo)
    /\ WellFormedId(in.workflowRunID) /\ WellFormedId(in.releaseID)

\* C12: in the validating replicators, a run whose workflow_repo,
\* release_repo, run_id or release_id is not well formed issues no hosting-API
\* request and writes no file: it ends with the failure signal straight after the
\* validation.
C12_InvalidAbortsEarly ==
    (variant \in {"replace", "skip"} /\ ~WellFormedConfig(inputs)) =>
        /\ pc \in {"validate", "done"}
        /\ requested = {} /\ posted = 0 /\ deleted = <<>>
        /\ disk = {}
        /\ pc = "done" => (status = "failure" /\ setFailedCalled)
C12_Witness ==
    /\ inputs.releaseID = <<>> /\ WellFormedRepo(inputs.workflowRepo)
    /\ pc = "done" /\ status = "failure" /\ requested = {}

\* C13: validateInputs accepts a configuration if and only if both repository
\* inputs have exactly one '/' with non-empty sides made of [A-Za-z0-9_.-] only
\* and both ids are non-empty strings of decimal digits.
C13_ValidateAcceptsExactly ==
    /\ pc # "validate" => ((status # "failure") <=> WellFormedConfig(inputs))
    /\ ValidateInputsOk(inputs) <=> WellFormedConfig(inputs)
C13_Witness ==
    /\ pc = "done" /\ status = "failure"
    /\ SlashCount(inputs.workflowRepo) = 2
    /\ WellFormedRepo(inputs.releaseRepo)
    /\ WellFormedId(inputs.workflowRunID) /\ WellFormedId(inputs.releaseID)

(***************************************************************************)
(* Claims about the paths, checked under SpecPaths.                        *)
(***************************************************************************)
\* path p lies in directory dir: dir is a prefix of its segments and no ".."
\* segment follows
Inside(dir, p) ==
    /\ Len(p) >= Len(dir)
    /\ SubSeq(p, 1, Len(dir)) = dir
    /\ \A k \in (Len(dir) + 1)..Len(p) : p[k] # DotDot
HasDotDotSegment(s) == \E k \in 1..Len(SplitPath(s, <<>>)) : SplitPath(s, <<>>)[k] = DotDot

\* C14: whatever the entry name ('..' segments, runs of dots, leading '/'),
\* extraction creates or writes only paths inside the extraction directory
\* (the working directory for the replace replicator); an entry whose path
\* would lie outside is skipped with a warning and nothing is written for it.
C14_ExtractionStaysInside ==
    /\ \A p \in xcreated : Inside(xdir, p)
    /\ xwarned => xcreated = {}
    /\ (xpc = "done" /\ xvariant = "skip"
          /\ ~Inside(xdir, PathJoin(PathString(xdir), SanitizeEntry(xentry)))) =>
          (xwarned /\ xcreated = {})
C14_Witness ==
    /\ xpc = "done" /\ xvariant = "skip"
    /\ HasDotDotSegment(xentry) /\ xentry[1] = "/"
    /\ xcreated # {} /\ ~xwarned
    /\ xdir = <<<<"extracted-artifacts">>, <<"a">>>>

\* C15: for every artifact name, the archive path and the extraction
\* directory derived from it stay inside their staging directory
\* (archived-artifacts, extracted-artifacts, the working directory for the
\* replace replicator's archive).
C15_NamePathsStayInside ==
    xpc # "derive" =>
        /\ xvariant = "replace" => (Inside(<<>>, xzip) /\ Len(xzip) = 1)
        /\ xvariant = "skip" =>
              /\ Inside(<<<<"archived-artifacts">>>>, xzip) /\ Len(xzip) = 2
              /\ Inside(<<<<"extracted-artifacts">>>>, xdir)

\* C16: naming rule: an artifact that yielded exactly one file has it uploaded
\* under the file's base name; with two or more files each asset name is
\* <artifactName>_<fileBaseName>.
NameByRule(n, artifactName, base) ==
    IF n = 1 THEN base ELSE artifactName \o "_" \o base
C16_NamingRule ==
    (pc = "upload" /\ art[ai].attempts # <<>>) =>
        LET k == art[ai].attempts[Len(art[ai].attempts)]
        IN /\ k \in 1..Len(files)
           /\ lastFile.name = NameByRule(Len(files), artifacts[ai], files[k].name)
           /\ lastFile.uploaded =>
                 \E a \in release : a.name = lastFile.name /\ a.content = files[k].content
C16_Witness ==
    /\ pc = "upload" /\ ai = 2 /\ Len(files) = 2 /\ fi = 3
    /\ lastFile.name = "B_y" /\ lastFile.uploaded
    /\ \E a \in release : a.name = "B_y"

\* C17: in the skip-on-conflict replicator an upload answered 422 with
\* 'already_exists' is a skip: nothing is thrown, a warning and no error is
\* logged for the file, the file is not counted, the release is left as it
\* was and the loop goes on with the next file; any other 422 is a failure of
\* the upload, logged as an error.
UploadStepTaken == variant = "skip" /\ pc = "upload" /\ art' # art
C17_AlreadyExistsIsSkip ==
    [][UploadStepTaken =>
          /\ lastFile'.answer = "422 already_exists" =>
                /\ release' = release
                /\ uploadedCount' = uploadedCount /\ posted' = posted
                /\ art'[ai].uploaded = art[ai].uploaded
                /\ <<"error", "file", ai, fi>> \notin logged'
                /\ <<"warning", "exists", ai, fi>> \in logged'
                /\ fi' = fi + 1 /\ pc' = "upload" /\ status' = "running"
          /\ lastFile'.answer = "422 other" =>
                /\ <<"error", "file", ai, fi>> \in logged'
                /\ release' = release
                /\ uploadedCount' = uploadedCount /\ posted' = posted
                /\ fi' = fi + 1]_vars
C17_Witness ==
    /\ variant = "skip" /\ pc = "done" /\ status = "success"
    /\ \E i \in 1..Len(art) :
          /\ art[i].nfiles = 2 /\ art[i].attempts = <<1, 2>> /\ art[i].uploaded = 1
          /\ <<"warning", "exists", i, 1>> \in logged
          /\ <<"error", "file", i, 1>> \notin logged

\* C18: a failure to enumerate the assets of the release is not fatal: after
\* the warning the run goes on with an empty existing-assets mapping, the
\* artifacts are listed and processed, and every file is uploaded as a new
\* asset, without any delete request.
AssetsWarned == <<"warning", "assets">> \in logged
C18_AssetListingFailureNonFatal ==
    /\ [](AssetsWarned =>
             /\ existingAssets = {}
             /\ deleted = <<>>
             /\ ~lastFile.existed)
    /\ [][(~AssetsWarned /\ AssetsWarned') =>
             /\ status' = "running"
             /\ pc' # "done"]_vars

(***************************************************************************)
(* Claims about the download of the zip-upload replicator, checked under   *)
(* SpecDownload.                                                           *)
(***************************************************************************)
\* C19: downloadArtifact follows at most a bounded number of redirects: the
\* number of requests issued for one artifact stays under a constant, and a
\* redirect beyond it makes the download fail instead of being followed.
C19_RedirectsBounded == \E limit \in 1..(MaxRequests - 1) : dreqs <= limit

\* C20: a download that exceeds the connection timeout or the total-transfer
\* timeout, counted from the start of the download to the end of the
\* transfer, is aborted, its partial file is deleted, the artifact is marked
\* failed and the download is not retried.
TimedOut == dresult \in {"download timeout", "connection timeout"}
C20_TimeoutsAbort ==
    /\ Active => dnow <= timeoutMs
    /\ dresult = "resolved" => dnow <= timeoutMs
    /\ TimedOut => ~dfile
    /\ (TimedOut /\ dphase = "recorded") => dmarked = "failed"

(***************************************************************************)
(* Claims about the end of a run.                                          *)
(***************************************************************************)
\* a fatal error was logged through error(...)
FatalLogged == <<"error", "action">> \in logged \/ <<"error", "uncaught">> \in logged
\* the invocation of the tag flow ended because of an error
TagEndedByError == TagDone /\ (uncaught \/ TagRequestFailed \/ Failed("GET repo")
                                \/ Failed("GET commit"))
\* the run of a replicator ended because of an error
ReplEndedByError ==
    /\ pc = "done"
    /\ \/ status = "failure"
       \/ \E i \in 1..Len(art) : art[i].de = "crashed"
       \/ variant = "index"

\* C21: every run of the tag flow or of a replicator that ends because of an
\* error that is not handled per item, errors of asynchronous callbacks
\* included, has raised the failure signal and logged the error; none ends
\* with a success status.
C21_FatalErrorsSignalled ==
    /\ TagEndedByError => tagFailed
    /\ ReplEndedByError => (setFailedCalled /\ FatalLogged /\ status = "failure")

(***************************************************************************)
(* Claims about the cleanup of the local files, checked under Spec.        *)
(***************************************************************************)
\* C22: at the end of a run no archive file and no extracted file of any
\* artifact remains on the local disk, whatever happened to the artifact,
\* unless its removal was attempted and failed.
C22_NothingLeftBehind ==
    (pc = "done" /\ variant \in {"replace", "skip"}) => disk \subseteq unlinkFailed

\* C23: a removal that fails is only logged: the step in which it fails
\* leaves the exit status, the counts and the release as they were, does not
\* mark the artifact as failed and, when it is the removal of the archive
\* after the extraction, is followed by the upload of the artifact's files.
RemovalFails == unlinkFailed' # unlinkFailed
C23_RemovalFailureOnlyLogged ==
    [][RemovalFails =>
          /\ status' = status /\ setFailedCalled' = setFailedCalled
          /\ posted' = posted /\ release' = release
          /\ totalProcessed' = totalProcessed + (IF pc = "upload" THEN processedCount ELSE 0)
          /\ uploadedCount' = uploadedCount
          /\ pc = "extract" => (art'[ai].de = "ok" /\ pc' = "upload")
          /\ pc = "upload" => art' = art]_vars

(***************************************************************************)
(* Claims about the counts, checked under Spec.                            *)
(***************************************************************************)
\* the count the summary reports: part_001 line 45, part_000 line 553
ReportedCount ==
    IF variant = "replace" THEN totalProcessed ELSE SumUploaded(uploadResults, 1)
\* the assets the run added to the release
AddedAssets == {a \in release : a.id \notin AssetIds(InitialAssets)}
RECURSIVE SumArt(_, _)
SumArt(a, j) == IF j > Len(a) THEN 0 ELSE a[j].uploaded + SumArt(a, j + 1)
SummaryReached ==
    /\ variant \in {"replace", "skip"}
    /\ \/ pc = "summary"
       \/ pc = "done" /\ Listed /\ \A i \in 1..Len(art) : art[i].de \in {"ok", "failed"}

\* C24: the processed count of the summary is the number of upload requests
\* the hosting API answered with success: every successful upload is counted
\* once, and a failed upload, a file of a failed artifact and a file skipped
\* as already existing are not counted.
C24_CountEqualsUploads ==
    SummaryReached =>
        /\ ReportedCount = posted
        /\ ReportedCount = Cardinality(AddedAssets)
        /\ ReportedCount = SumArt(art, 1)
        /\ \A i \in 1..Len(art) :
              /\ art[i].de = "failed" => art[i].uploaded = 0
              /\ art[i].uploaded =
                    art[i].nfiles
                    - Cardinality({k \in 1..art[i].nfiles :
                                      \/ <<"error", "file", i, k>> \in logged
                                      \/ <<"warning", "exists", i, k>> \in logged})
C24_Witness ==
    /\ variant = "skip" /\ pc = "done" /\ status = "success" /\ Len(art) = 2
    /\ ReportedCount = 1
    /\ <<"warning", "exists", 1, 1>> \in logged
    /\ <<"error", "file", 1, 2>> \in logged
    /\ art[2].uploaded = 1

(***************************************************************************)
(* Claims about the order of the steps, checked under Spec.                *)
(***************************************************************************)
\* a step of artifact j has been taken
Started(j) == art[j].de # "none" \/ (pc = "extract" /\ ai = j)
\* the processing of artifact i is over, its cleanup included
Finished(i) == art[i].de = "failed" \/ UploadsOver(i)

\* C25: the artifacts are processed one after another, in input order: no
\* step of a later artifact is taken before the uploads and the cleanup of
\* every artifact before it are over, an artifact's uploads come after its
\* extraction, and the summary comes after the cleanup of the last artifact.
C25_OneArtifactAtATime ==
    /\ \A i \in 1..Len(art) : \A j \in (i + 1)..Len(art) :
          Started(j) => Finished(i)
    /\ \A i \in 1..Len(art) : art[i].attempts # <<>> => art[i].de = "ok"
    /\ pc = "summary" => \A i \in 1..Len(art) : Finished(i)

(***************************************************************************)
(* Claims about a failed download, checked under Spec.                     *)
(***************************************************************************)
\* downloadArtifact of the skip-on-conflict replicator throws to its caller
DownloadThrows == variant = "skip" /\ pc = "download" /\ art'[ai].de = "failed"

\* C26: whenever downloadArtifact fails, whatever the reason, no file exists
\* at the staging path of the artifact when the error reaches the caller.
C26_FailedDownloadLeavesNoFile ==
    [][DownloadThrows => ArchivePath(artifacts[ai]) \notin disk']_vars

(***************************************************************************)
(* Claims about the delete requests of the replace replicator, checked     *)
(* under Spec.                                                             *)
(***************************************************************************)
\* C27: within one run of the replace replicator no asset id is the target
\* of two delete requests: no delete request is issued for an asset that the
\* run has already deleted or replaced.
C27_NoSecondDelete ==
    variant = "replace" =>
        \A m \in 1..Len(deleted) : \A n \in 1..Len(deleted) :
            deleted[m] = deleted[n] => m = n

(***************************************************************************)
(* Claims about the names within one artifact, checked under Spec.         *)
(***************************************************************************)
\* the asset name of the k-th file of the artifact in work
AssetNameOf(k) ==
    IF variant = "replace" THEN FileNameOf(Len(files), artifacts[ai], files[k].name)
    ELSE UploadNameOf(Len(files), artifacts[ai], files[k].name)

\* C28: two distinct file entries of one archive, entries of the same base
\* name in different directories included, get distinct asset names and are
\* extracted to distinct local paths.
C28_DistinctNamesAndPaths ==
    (variant \in {"replace", "skip"} /\ pc = "upload") =>
        \A m \in 1..Len(files) : \A n \in 1..Len(files) :
            m # n => /\ AssetNameOf(m) # AssetNameOf(n)
                     /\ files[m].path # files[n].path

(***************************************************************************)
(* Claims about the termination of the download, checked under             *)
(* SpecDownloadLive.                                                       *)
(***************************************************************************)
\* C29: every call of downloadArtifact eventually settles, whatever the
\* server does, and main then records the result and goes on to the next
\* artifact.
C29_DownloadSettles ==
    (dphase = "connecting") ~> (dresult # "pending" /\ dphase = "recorded")

(***************************************************************************)
(* Claims about running the skip-on-conflict replicator again, checked     *)
(* under SpecRerun.                                                        *)
(***************************************************************************)
\* the second run has ended, it saw the artifacts and the files of the first
\* run and none of its requests failed for another reason than a conflict
SecondRunEnded ==
    /\ firstRun # NoRun /\ pc = "done"
    /\ artifacts = firstRun.artifacts
    /\ downloadResults = firstRun.results
    /\ \A e \in logged : e[1] # "error" \/ e = <<"error", "action">>

\* C30: after a first run that uploaded every file of the workflow run to
\* the release, a second run on the same workflow run and release ends in
\* success, issues no delete request and leaves the assets of the release
\* as they were.
C30_RerunIdempotent ==
    SecondRunEnded =>
        /\ status = "success" /\ ~setFailedCalled
        /\ deleted = <<>>
        /\ release = firstRun.release

====
